---- MODULE Spec2Model ----
(***************************************************************************)
(* The local-blocks processor of the metrics generator                     *)
(* (modules/generator/processor/localblocks/processor.go): the live trace  *)
(* buffer, the head / write-ahead / complete block sets, the four          *)
(* background loops, Shutdown and the recovery done by New.                *)
(*                                                                         *)
(* Time is a natural-number clock `now`.  A WAL block is an object of the  *)
(* heap `wb`, keyed by its block identifier; p.headBlock and p.walBlocks   *)
(* hold references into it.  Every storage call that can return an error   *)
(* fails nondeterministically, within a budget of MaxFailures failures.    *)
(***************************************************************************)
EXTENDS Integers, Sequences, FiniteSets, TLC

\* ---------------------------------------------------------------- bounds
MaxTraceId == 3        \* trace identifiers are 1..MaxTraceId
MaxTime == 3           \* the clock stops at MaxTime
MaxPushes == 1         \* number of PushSpans calls in a run of the whole processor
MaxBufferPushes == 3   \* number of PushSpans calls in a run of the buffer and the flush loop
MaxCutPushes == 2      \* number of PushSpans calls in a run of the buffer, the flush loop and Shutdown
MaxNewBlocks == 2      \* number of uuid.New() calls of resetHeadBlock
MaxFailures == 1       \* number of storage calls that fail while running
MaxGroups == 2         \* scope groups of a batch given to filterBatch
MaxSpans == 2          \* spans of a scope group, and their trace identifiers

\* ------------------------------------------------- configuration (Config)
MaxLiveTraces == 2
TraceIdlePeriod == 1
MaxBlockDuration == 1
MaxBlockBytes == 2
CompleteBlockTimeout == 1

\* ------------------------------------------------------------ vocabulary
Nil == 0                \* the nil head block
TraceIds == 1..MaxTraceId
Times == 0..MaxTime
ZeroTime == -2          \* time.Time{}: earlier than now - TraceIdlePeriod at every clock value
Tenant == "T"
OtherTenant == "U"
SERVER == "SERVER"
CLIENT == "CLIENT"
DiskIds == {1, 2}       \* identifiers of the blocks found on disk by New
FirstNewId == Cardinality(DiskIds) + 1   \* uuid.New() never returns an identifier seen before
Tasks == {"flush", "delete", "complete", "metric"}
Cutters == {"flush", "shutdown"}
Procs == Tasks \cup {"shutdown"}

VARIABLES
    now,            \* the clock
    disk,           \* what New finds on disk
    phase,          \* "new" | "running" | "failed": the outcome of New
    pc,             \* position of each background task and of Shutdown
    closed,         \* p.closeCh is closed
    liveTracesMtx,  \* holder of p.liveTracesMtx, or "none"
    blocksMtx,      \* holder of p.blocksMtx, or "none"
    liveTraces,     \* p.liveTraces.traces: id -> [timestamp, Batches]
    tracesToCut,    \* local of cutIdleTraces: traces cut and not yet written
    wb,             \* heap of WAL block objects: id -> [recs, EndTime, flushed, cleared]
    headBlock,      \* p.headBlock: an id of wb, or Nil
    walBlocks,      \* keys of p.walBlocks
    completeBlocks, \* p.completeBlocks: id -> [recs, EndTime]
    lastCutTime,    \* p.lastCutTime
    nextId,         \* next identifier uuid.New() returns
    metricTotalTraces,
    metricDroppedTraces,
    pushes,         \* number of PushSpans calls made
    pushLimit,      \* number of PushSpans calls the run makes at most
    failLimit,      \* number of storage calls that fail in the run at most
    lastReq,        \* the request of the PushSpans call the latest step made, if it made one
    failures,       \* number of storage calls that have failed
    lost,           \* traces cut from the buffer and dropped unwritten
    cutRecs,        \* records held by blocks that cutBlocks moved to the write-ahead set
    lateIds,        \* identifiers pushed after Shutdown's idle cut took the buffer
    removed,        \* identifiers of the blocks removed from a set so far
    given,          \* the batch a filterBatch call is given
    filtered        \* what that call returned

vars == <<now, disk, pushLimit, failLimit, lastReq, phase, pc, closed, liveTracesMtx, blocksMtx, liveTraces,
          tracesToCut, wb, headBlock, walBlocks, completeBlocks, lastCutTime,
          nextId, metricTotalTraces, metricDroppedTraces, pushes,
          failures, lost, cutRecs, lateIds, removed,
          given, filtered>>

\* ------------------------------------------------------------- sequences
Range(s) == {s[i] : i \in 1..Len(s)}

RECURSIVE SelectSeqBy(_, _)
\* the subsequence of s whose elements are in the set keep
SelectSeqBy(s, keep) ==
    IF s = <<>> THEN <<>>
    ELSE IF Head(s) \in keep THEN <<Head(s)>> \o SelectSeqBy(Tail(s), keep)
         ELSE SelectSeqBy(Tail(s), keep)

RECURSIVE SortedIds(_)
\* the identifiers of the set S in ascending order
SortedIds(S) ==
    IF S = {} THEN <<>>
    ELSE LET m == CHOOSE x \in S : \A y \in S : x <= y
         IN <<m>> \o SortedIds(S \ {m})

\* --------------------------------------------------------------- batches
Span(id, kind) == [TraceId |-> id, Kind |-> kind]
ScopeSpans(scope, spans) == [Scope |-> scope, Spans |-> spans]
ResourceSpans(res, ss) == [Resource |-> res, ScopeSpans |-> ss]

\* a filterBatch that keeps every span of a scope group with a server span
keepSpansOfGroup(spans) ==
    IF \E i \in 1..Len(spans) : spans[i].Kind = SERVER THEN spans ELSE <<>>

RECURSIVE keepSpans(_)
\* filterBatch, inner loop: the server-kind spans of a span list, in order
keepSpans(spans) ==
    IF spans = <<>> THEN <<>>
    ELSE IF Head(spans).Kind = SERVER
         THEN <<Head(spans)>> \o keepSpans(Tail(spans))
         ELSE keepSpans(Tail(spans))

RECURSIVE keepSS(_)
\* filterBatch, outer loop: the scope groups that keep at least one span
keepSS(sss) ==
    IF sss = <<>> THEN <<>>
    ELSE LET ks == keepSpans(Head(sss).Spans)
         IN IF Len(ks) > 0
            THEN <<ScopeSpans(Head(sss).Scope, ks)>> \o keepSS(Tail(sss))
            ELSE keepSS(Tail(sss))

NilBatch == [Resource |-> "nil", ScopeSpans |-> <<>>]

\* filterBatch: NilBatch stands for the nil pointer
filterBatch(batch) ==
    LET k == keepSS(batch.ScopeSpans)
    IN IF Len(k) > 0 THEN ResourceSpans(batch.Resource, k) ELSE NilBatch

\* filterBatch has not been called
NotFiltered == [Resource |-> "unset", ScopeSpans |-> <<>>]

\* the sequences over S of length at most n
SeqUpTo(S, n) == UNION {[1..k -> S] : k \in 0..n}

\* the batches filterBatch is tried on: up to MaxGroups scope groups of up to
\* MaxSpans spans, of either kind
FilterSpans == {Span(id, kind) : id \in 1..MaxSpans, kind \in {SERVER, CLIENT}}
FilterGroups == {ScopeSpans(sc, sp) : sc \in {"s1", "s2"}, sp \in SeqUpTo(FilterSpans, MaxSpans)}
FilterInputs == {ResourceSpans("r", ss) : ss \in SeqUpTo(FilterGroups, MaxGroups)}

\* the trace identifier liveTraces.Push extracts from a (filtered) batch
BatchTraceId(batch) == batch.ScopeSpans[1].Spans[1].TraceId

ServerBatch(id) ==
    ResourceSpans("r", <<ScopeSpans("s", <<Span(id, CLIENT), Span(id, SERVER)>>)>>)
ClientBatch(id) ==
    ResourceSpans("r", <<ScopeSpans("s", <<Span(id, CLIENT)>>)>>)

\* the batches PushSpans is called with
PushBatches == {ServerBatch(id) : id \in TraceIds} \cup {ClientBatch(1)}
\* the requests PushSpans is called with: one batch, or two
NoReq == <<>>
Requests ==
    {<<b>> : b \in PushBatches} \cup
    {<<b, c>> : b \in {ServerBatch(id) : id \in TraceIds}, c \in {ServerBatch(id) : id \in TraceIds}}

\* ------------------------------------------------------- live trace buffer
NoTraces == [id \in {} |-> [timestamp |-> 0, Batches |-> 0]]

\* liveTraces.Len
LiveLen(lt) == Cardinality(DOMAIN lt)

\* liveTraces.Push: the buffer after the push, and whether it was rejected.
\* A live trace keeps the number of batches pushed to it.
Push(lt, batch, max, t) ==
    LET id == BatchTraceId(batch)
    IN IF id \in DOMAIN lt
       THEN [traces |-> [lt EXCEPT ![id] = [timestamp |-> t, Batches |-> @.Batches + 1]],
             errMaxExceeded |-> FALSE]
       ELSE IF LiveLen(lt) >= max
            THEN [traces |-> lt, errMaxExceeded |-> TRUE]
            ELSE [traces |-> [i \in DOMAIN lt \cup {id} |->
                                IF i = id THEN [timestamp |-> t, Batches |-> 1] ELSE lt[i]],
                  errMaxExceeded |-> FALSE]

\* liveTraces.CutIdle: the identifiers removed; the zero instant selects all
CutIdle(lt, since) ==
    IF since = ZeroTime THEN DOMAIN lt
    ELSE {id \in DOMAIN lt : lt[id].timestamp < since}

RECURSIVE PushLoopOverMax(_, _, _, _)
\* PushLoop letting the buffer grow one past MaxLiveTraces
PushLoopOverMax(lt, batches, dropped, t) ==
    IF batches = <<>> THEN [traces |-> lt, dropped |-> dropped]
    ELSE LET b == filterBatch(Head(batches))
         IN IF b = NilBatch THEN PushLoopOverMax(lt, Tail(batches), dropped, t)
            ELSE LET r == Push(lt, b, MaxLiveTraces + 1, t)
                 IN PushLoopOverMax(r.traces, Tail(batches),
                                    IF r.errMaxExceeded THEN dropped + 1 ELSE dropped, t)

RECURSIVE PushLoopDropOnce(_, _, _, _)
\* PushLoop counting a rejected identifier once per call, however many of
\* its batches are rejected
PushLoopDropOnce(lt, batches, dropped, t) ==
    LET ids == {BatchTraceId(filterBatch(batches[i])) :
                  i \in {j \in 1..Len(batches) : filterBatch(batches[j]) # NilBatch}}
        RECURSIVE Go(_, _)
        Go(l, bs) ==
            IF bs = <<>> THEN l
            ELSE LET b == filterBatch(Head(bs))
                 IN IF b = NilBatch THEN Go(l, Tail(bs))
                    ELSE Go(Push(l, b, MaxLiveTraces, t).traces, Tail(bs))
        after == Go(lt, batches)
    IN [traces |-> after, dropped |-> dropped + Cardinality(ids \ DOMAIN after)]

RECURSIVE PushLoop(_, _, _, _)
\* the loop of PushSpans over req.Batches: the buffer and the number of
\* increments of the dropped-traces counter
PushLoop(lt, batches, dropped, t) ==
    IF batches = <<>> THEN [traces |-> lt, dropped |-> dropped]
    ELSE LET b == filterBatch(Head(batches))
         IN IF b = NilBatch THEN PushLoop(lt, Tail(batches), dropped, t)
            ELSE LET r == Push(lt, b, MaxLiveTraces, t)
                 IN PushLoop(r.traces, Tail(batches),
                                 IF r.errMaxExceeded THEN dropped + 1 ELSE dropped, t)

\* ---------------------------------------------------------------- blocks
NoBlocks == [id \in {} |-> [recs |-> <<>>, EndTime |-> 0]]
NoWal == [id \in {} |-> [recs |-> <<>>, EndTime |-> 0, flushed |-> 0, cleared |-> FALSE]]

\* wal.NewBlock: an empty appendable segment
NewWalBlock == [recs |-> <<>>, EndTime |-> 0, flushed |-> 0, cleared |-> FALSE]

\* WALBlock.DataLength: every record counts one byte
DataLength(b) == Len(b.recs)

Max(a, b) == IF a >= b THEN a ELSE b

\* WALBlock.Append(id, b, now, now): the end time follows the latest record
AppendRec(b, rec, t) == [b EXCEPT !.recs = Append(@, rec), !.EndTime = Max(@, t)]

\* WALBlock.Flush: everything appended is durable
Flush(b) == [b EXCEPT !.flushed = Len(b.recs)]

\* the WAL block objects still referenced by the processor
Referenced(heap, head, wal) ==
    [id \in (DOMAIN heap) \cap (wal \cup {head}) |-> heap[id]]

\* enc.CreateBlock followed by enc.OpenBlock: the complete block of a WAL
\* block keeps the block identifier, the records and the end time
CreateBlock(b) == [recs |-> b.recs, EndTime |-> b.EndTime]

\* a deleteOldBlocks that tests EndTime.After(before)
IsOldAfter(endTime, t) == endTime > t - CompleteBlockTimeout

\* deleteOldBlocks: BlockMeta().EndTime.Before(before)
IsOld(endTime, t) == endTime < t - CompleteBlockTimeout

\* a cutBlocks that looks at the head block's being empty only, and cuts a
\* non-empty head block whatever the thresholds
CutIsNoopEmptyOnly(immediate, head, heap, lastCut, t) ==
    IF head = Nil THEN TRUE ELSE DataLength(heap[head]) = 0

\* a cutBlocks that cuts only when both thresholds are reached
CutIsNoopEither(immediate, head, heap, lastCut, t) ==
    IF head = Nil THEN TRUE
    ELSE \/ DataLength(heap[head]) = 0
         \/ /\ ~immediate
            /\ \/ t - lastCut < MaxBlockDuration
               \/ DataLength(heap[head]) < MaxBlockBytes

\* cutBlocks: the early returns of lines 363 and 367
CutIsNoop(immediate, head, heap, lastCut, t) ==
    IF head = Nil THEN TRUE
    ELSE \/ DataLength(heap[head]) = 0
         \/ /\ ~immediate
            /\ t - lastCut < MaxBlockDuration
            /\ DataLength(heap[head]) < MaxBlockBytes

CanFail == failures < failLimit
CanAllocate == nextId < FirstNewId + MaxNewBlocks

\* f with key k bound to v
Put(f, k, v) == [x \in DOMAIN f \cup {k} |-> IF x = k THEN v ELSE f[x]]

\* f without the keys of D
Without(f, D) == [x \in DOMAIN f \ D |-> f[x]]

\* WALBlock.Clear on the blocks of D: their storage is deleted
Clear(heap, D) ==
    [x \in DOMAIN heap |-> IF x \in D THEN [heap[x] EXCEPT !.cleared = TRUE] ELSE heap[x]]

\* --------------------------------------------------------------- recovery
ListedStates == {"unlisted", "ok", "absent", "absentClearFails", "metaErr", "openErr"}

\* what New can find: no WAL at all ("nowal"), else the call that fails (if
\* any), the tenant of
\* each rescanned WAL segment, the tenants of the backend, and for each block
\* the backend lists what reading its metadata and opening it give
Disks ==
    [fail : {"none", "nowal", "rescan", "tenants", "blocks"},
     segs : [DiskIds -> {"none", Tenant, OtherTenant}],
     tenants : {{}, {Tenant}, {OtherTenant}},
     listed : [DiskIds -> ListedStates]]

NoDisk ==
    [fail |-> "none", segs |-> [i \in DiskIds |-> "none"], tenants |-> {},
     listed |-> [i \in DiskIds |-> "unlisted"]]

\* the WAL segment with identifier i found by wal.RescanBlocks
DiskWal(i) ==
    [recs |-> <<[id |-> i, n |-> 1]>>, EndTime |-> 0, flushed |-> 1, cleared |-> FALSE]

\* a recovery that registers the blocks whose metadata is absent
LoadListedAll(ids, d, complete) ==
    [err |-> \E i \in Range(ids) : d.listed[i] \in {"metaErr", "openErr"},
     complete |-> complete \cup Range(ids)]

RECURSIVE LoadListed(_, _, _)
\* reloadBlocks, the loop over the listed block identifiers (lines 428-450)
LoadListed(ids, d, complete) ==
    IF ids = <<>> THEN [err |-> FALSE, complete |-> complete]
    ELSE LET id == Head(ids)
             st == d.listed[id]
         IN IF st \in {"absent", "absentClearFails"}
            THEN LoadListed(Tail(ids), d, complete)
            ELSE IF st \in {"metaErr", "openErr"}
                 THEN [err |-> TRUE, complete |-> complete]
                 ELSE LoadListed(Tail(ids), d, complete \cup {id})

\* a recovery that registers the segments of every tenant
reloadBlocksAnyTenant(d) ==
    [err |-> d.fail = "rescan", wal |-> {i \in DiskIds : d.segs[i] # "none"}, complete |-> {}]

\* reloadBlocks: whether it returns an error, and the two sets it builds
reloadBlocks(d) ==
    LET wal == {i \in DiskIds : d.segs[i] = Tenant}
    IN IF d.fail = "rescan" THEN [err |-> TRUE, wal |-> {}, complete |-> {}]
       ELSE IF d.fail = "tenants" THEN [err |-> TRUE, wal |-> wal, complete |-> {}]
       ELSE IF d.tenants = {} THEN [err |-> FALSE, wal |-> wal, complete |-> {}]
       ELSE IF d.fail = "blocks" THEN [err |-> TRUE, wal |-> wal, complete |-> {}]
       ELSE LET r == LoadListed(SortedIds({i \in DiskIds : d.listed[i] # "unlisted"}), d, {})
            IN [err |-> r.err, wal |-> wal, complete |-> r.complete]

\* the disks the processor is started on when it is then run: a first
\* start on an empty disk, and a restart that finds one write-ahead segment
StartDisks ==
    {NoDisk,
     [fail |-> "none", segs |-> [i \in DiskIds |-> IF i = 1 THEN Tenant ELSE "none"],
      tenants |-> {}, listed |-> [i \in DiskIds |-> "unlisted"]]}

\* ------------------------------------------------------------------- Init
InitWith(disks, maxPushes, maxFailures, batches) ==
    /\ now = 0
    /\ disk \in disks
    /\ pushLimit = maxPushes
    /\ failLimit = maxFailures
    /\ phase = "new"
    /\ pc = [p \in Procs |-> "none"]
    /\ closed = FALSE
    /\ liveTracesMtx = "none"
    /\ blocksMtx = "none"
    /\ liveTraces = NoTraces
    /\ tracesToCut = <<>>
    /\ wb = NoWal
    /\ headBlock = Nil
    /\ walBlocks = {}
    /\ completeBlocks = NoBlocks
    /\ lastCutTime = 0
    /\ nextId = FirstNewId
    /\ metricTotalTraces = 0
    /\ metricDroppedTraces = 0
    /\ pushes = 0
    /\ lastReq = NoReq
    /\ failures = 0
    /\ lost = 0
    /\ cutRecs = 0
    /\ lateIds = {}
    /\ removed = {}
    /\ given \in batches
    /\ filtered = NotFiltered

\* the processor's own runs: no separate filterBatch call is tried
InitOn(disks, maxPushes, maxFailures) == InitWith(disks, maxPushes, maxFailures, {NilBatch})

Init == InitOn(StartDisks, MaxPushes, MaxFailures)
InitRecovery == InitOn(Disks, 0, 0)
InitBuffer == InitOn({NoDisk}, MaxBufferPushes, 0)
InitCut == InitOn({NoDisk}, MaxCutPushes, 0)

\* New: a nil WAL is refused (lines 46-48); else reloadBlocks, then the four
\* loops are started; on an error no processor is returned
New ==
    /\ phase = "new"
    /\ LET r == reloadBlocks(disk)
       IN IF disk.fail = "nowal" \/ r.err
          THEN /\ phase' = "failed"
               /\ UNCHANGED <<pc, wb, walBlocks, completeBlocks>>
          ELSE /\ phase' = "running"
               /\ pc' = [p \in Procs |-> IF p \in Tasks THEN "idle" ELSE "none"]
               /\ wb' = [i \in r.wal |-> DiskWal(i)]
               /\ walBlocks' = r.wal
               /\ completeBlocks' = [i \in r.complete |-> CreateBlock(DiskWal(i))]
    /\ lastReq' = NoReq
    /\ UNCHANGED <<given, filtered>>
    /\ UNCHANGED <<now, disk, pushLimit, failLimit, closed, liveTracesMtx, blocksMtx, liveTraces, tracesToCut,
                   headBlock, lastCutTime, nextId, metricTotalTraces,
                   metricDroppedTraces, pushes, failures, lost, cutRecs, lateIds, removed>>

\* the clock advances
Tick ==
    /\ phase = "running"
    /\ now < MaxTime
    /\ now' = now + 1
    /\ lastReq' = NoReq
    /\ UNCHANGED <<given, filtered>>
    /\ UNCHANGED <<disk, pushLimit, failLimit, phase, pc, closed, liveTracesMtx, blocksMtx, liveTraces,
                   tracesToCut, wb, headBlock, walBlocks, completeBlocks, lastCutTime,
                   nextId, metricTotalTraces, metricDroppedTraces, pushes,
                   failures, lost, cutRecs, lateIds, removed>>

\* the identifiers of the batches of req that pass filterBatch
ReqIds(req) ==
    {BatchTraceId(filterBatch(req[i])) : i \in {j \in 1..Len(req) : filterBatch(req[j]) # NilBatch}}

\* PushSpans: the whole call runs under liveTracesMtx
PushSpans(req) ==
    /\ phase = "running"
    /\ liveTracesMtx = "none"
    /\ pushes < pushLimit
    /\ LET before == LiveLen(liveTraces)
           r == PushLoop(liveTraces, req, 0, now)
           after == LiveLen(r.traces)
       IN /\ liveTraces' = r.traces
          /\ metricDroppedTraces' = metricDroppedTraces + r.dropped
          /\ metricTotalTraces' = metricTotalTraces + (after - before)
          /\ lateIds' = IF pc["shutdown"] \in {"cutBlocks", "returned"}
                        THEN lateIds \cup (ReqIds(req) \cap DOMAIN r.traces)
                        ELSE lateIds
    /\ pushes' = pushes + 1
    /\ lastReq' = req
    /\ UNCHANGED <<given, filtered>>
    /\ UNCHANGED <<now, disk, pushLimit, failLimit, phase, pc, closed, liveTracesMtx, blocksMtx, tracesToCut,
                   wb, headBlock, walBlocks, completeBlocks, lastCutTime, nextId,
                   failures, lost, cutRecs, removed>>

\* ------------------------------------------------------- cutIdleTraces
\* a Shutdown that passes immediate = FALSE as the flush loop does
ImmediateNever(c) == FALSE

\* the caller c is the flush loop (immediate = FALSE) or Shutdown (TRUE)
Immediate(c) == c = "shutdown"

\* a flush loop that returns to its select when cutIdleTraces is over,
\* without calling cutBlocks
AfterCutIdleSkip(c) == [pc EXCEPT ![c] = IF c = "flush" THEN "idle" ELSE "cutBlocks"]

\* where the caller continues when cutIdleTraces returns: both callers log
\* the error, if any, and go on to cutBlocks
AfterCutIdle(c) == [pc EXCEPT ![c] = "cutBlocks"]

\* where the caller continues when cutBlocks returns
AfterCutBlocks(c) == [pc EXCEPT ![c] = IF c = "flush" THEN "idle" ELSE "returned"]

RECURSIVE ToCut(_, _)
\* the cut traces, sorted by identifier (sort.Slice of line 295)
ToCut(lt, ids) ==
    IF ids = <<>> THEN <<>>
    ELSE <<[id |-> Head(ids), n |-> lt[Head(ids)].Batches]>> \o ToCut(lt, Tail(ids))

\* a cutoff that forgets the idle period
SinceNow(immediate, t) == IF immediate THEN ZeroTime ELSE t

\* cutIdleTraces, lines 281-284: the cutoff handed to CutIdle
Since(immediate, t) == IF immediate THEN ZeroTime ELSE t - TraceIdlePeriod

\* cutIdleTraces, lines 275-297: take the buffer lock, cut the idle traces,
\* return if there are none, else sort them.  The flush loop enters it from
\* its ticker, Shutdown after wg.Wait.
CutIdleTraces(c) ==
    /\ phase = "running"
    /\ pc[c] = IF c = "flush" THEN "idle" ELSE "cutIdle"
    /\ liveTracesMtx = "none"
    /\ LET since == Since(Immediate(c), now)
           cut == CutIdle(liveTraces, since)
       IN /\ liveTraces' = Without(liveTraces, cut)
          /\ IF cut = {}
             THEN /\ pc' = AfterCutIdle(c)
                  /\ UNCHANGED <<liveTracesMtx, tracesToCut>>
             ELSE /\ pc' = [pc EXCEPT ![c] = "write"]
                  /\ liveTracesMtx' = c
                  /\ tracesToCut' = ToCut(liveTraces, SortedIds(cut))
    /\ lastReq' = NoReq
    /\ UNCHANGED <<given, filtered>>
    /\ UNCHANGED <<now, disk, pushLimit, failLimit, phase, closed, blocksMtx, wb, headBlock, walBlocks,
                   completeBlocks, lastCutTime, nextId, metricTotalTraces,
                   metricDroppedTraces, pushes, failures, lost, cutRecs, lateIds, removed>>

\* a cutIdleTraces whose error returns skip the unlock of the buffer lock
CutIdleErrLocked(c) ==
    /\ CanFail
    /\ failures' = failures + 1
    /\ lost' = lost + Len(tracesToCut)
    /\ tracesToCut' = <<>>
    /\ liveTracesMtx' = liveTracesMtx
    /\ pc' = AfterCutIdle(c)

\* cutIdleTraces returns an error: the traces not yet written are dropped
\* with the local slice, and the deferred unlocks run
CutIdleErr(c) ==
    /\ CanFail
    /\ failures' = failures + 1
    /\ lost' = lost + Len(tracesToCut)
    /\ tracesToCut' = <<>>
    /\ liveTracesMtx' = "none"
    /\ pc' = AfterCutIdle(c)

\* lines 304-314: PrepareForWrite or ToObject fails
EncodeFail(c) ==
    /\ pc[c] = "write"
    /\ CutIdleErr(c)
    /\ lastReq' = NoReq
    /\ UNCHANGED <<given, filtered>>
    /\ UNCHANGED <<now, disk, pushLimit, failLimit, phase, closed, blocksMtx, liveTraces, wb, headBlock, walBlocks,
                   completeBlocks, lastCutTime, nextId, metricTotalTraces,
                   metricDroppedTraces, pushes, cutRecs, lateIds, removed>>

\* writeHeadBlock, lines 332-336: wal.NewBlock fails in resetHeadBlock
WriteResetFail(c) ==
    /\ pc[c] = "write"
    /\ blocksMtx = "none"
    /\ headBlock = Nil
    /\ CutIdleErr(c)
    /\ UNCHANGED blocksMtx
    /\ lastReq' = NoReq
    /\ UNCHANGED <<given, filtered>>
    /\ UNCHANGED <<now, disk, pushLimit, failLimit, phase, closed, liveTraces, wb, headBlock, walBlocks,
                   completeBlocks, lastCutTime, nextId, metricTotalTraces,
                   metricDroppedTraces, pushes, cutRecs, lateIds, removed>>

\* the head block and the heap once writeHeadBlock has made sure there is a
\* head block (resetHeadBlock, lines 349-357)
HeadForWrite == IF headBlock = Nil THEN nextId ELSE headBlock
HeapForWrite == IF headBlock = Nil THEN Put(wb, nextId, NewWalBlock) ELSE wb

\* writeHeadBlock: the head block is allocated if there is none, and the
\* record is appended
WriteHeadBlock(c) ==
    /\ pc[c] = "write"
    /\ blocksMtx = "none"
    /\ headBlock = Nil => CanAllocate
    /\ headBlock' = HeadForWrite
    /\ lastCutTime' = IF headBlock = Nil THEN now ELSE lastCutTime
    /\ nextId' = IF headBlock = Nil THEN nextId + 1 ELSE nextId
    /\ \/ /\ wb' = [HeapForWrite EXCEPT
                      ![HeadForWrite] = AppendRec(@, Head(tracesToCut), now)]
          /\ tracesToCut' = Tail(tracesToCut)
          /\ pc' = [pc EXCEPT ![c] = IF Tail(tracesToCut) = <<>> THEN "flush" ELSE "write"]
          /\ UNCHANGED <<liveTracesMtx, failures, lost>>
       \/ /\ wb' = HeapForWrite
          /\ CutIdleErr(c)
    /\ lastReq' = NoReq
    /\ UNCHANGED <<given, filtered>>
    /\ UNCHANGED <<now, disk, pushLimit, failLimit, phase, closed, blocksMtx, liveTraces, walBlocks, completeBlocks,
                   metricTotalTraces, metricDroppedTraces, pushes, cutRecs,
                   lateIds, removed>>

\* cutIdleTraces, line 325: the head block is flushed and both locks released
FlushHead(c) ==
    /\ pc[c] = "flush"
    /\ blocksMtx = "none"
    /\ \/ /\ wb' = [wb EXCEPT ![headBlock] = Flush(@)]
          /\ UNCHANGED failures
       \/ /\ CanFail
          /\ failures' = failures + 1
          /\ UNCHANGED wb
    /\ liveTracesMtx' = "none"
    /\ pc' = AfterCutIdle(c)
    /\ lastReq' = NoReq
    /\ UNCHANGED <<given, filtered>>
    /\ UNCHANGED <<now, disk, pushLimit, failLimit, phase, closed, blocksMtx, liveTraces, tracesToCut, headBlock,
                   walBlocks, completeBlocks, lastCutTime, nextId, metricTotalTraces,
                   metricDroppedTraces, pushes, lost, cutRecs, lateIds, removed>>

\* ------------------------------------------------------------ cutBlocks
\* cutBlocks, lines 363-369: nothing to cut
CutBlocksNoop(c) ==
    /\ pc[c] = "cutBlocks"
    /\ blocksMtx = "none"
    /\ CutIsNoop(Immediate(c), headBlock, wb, lastCutTime, now)
    /\ pc' = AfterCutBlocks(c)
    /\ lastReq' = NoReq
    /\ UNCHANGED <<given, filtered>>
    /\ UNCHANGED <<now, disk, pushLimit, failLimit, phase, closed, liveTracesMtx, blocksMtx, liveTraces, tracesToCut,
                   wb, headBlock, walBlocks, completeBlocks, lastCutTime, nextId,
                   metricTotalTraces, metricDroppedTraces, pushes, failures,
                   lost, cutRecs, lateIds, removed>>

\* cutBlocks, lines 372-375: the final flush fails
CutBlocksFlushFail(c) ==
    /\ pc[c] = "cutBlocks"
    /\ blocksMtx = "none"
    /\ ~CutIsNoop(Immediate(c), headBlock, wb, lastCutTime, now)
    /\ CanFail
    /\ failures' = failures + 1
    /\ pc' = AfterCutBlocks(c)
    /\ lastReq' = NoReq
    /\ UNCHANGED <<given, filtered>>
    /\ UNCHANGED <<now, disk, pushLimit, failLimit, phase, closed, liveTracesMtx, blocksMtx, liveTraces, tracesToCut,
                   wb, headBlock, walBlocks, completeBlocks, lastCutTime, nextId,
                   metricTotalTraces, metricDroppedTraces, pushes,
                   lost, cutRecs, lateIds, removed>>

\* the write-ahead set once the flushed head block is registered (line 377)
RegisterHead(wal, head) == wal \cup {head}

\* cutBlocks, lines 372-384: flush, register the head block as a write-ahead
\* block, then resetHeadBlock, which can fail
CutBlocks(c) ==
    /\ pc[c] = "cutBlocks"
    /\ blocksMtx = "none"
    /\ ~CutIsNoop(Immediate(c), headBlock, wb, lastCutTime, now)
    /\ walBlocks' = RegisterHead(walBlocks, headBlock)
    /\ cutRecs' = cutRecs + DataLength(wb[headBlock])
    /\ \/ /\ CanAllocate
          /\ headBlock' = nextId
          /\ nextId' = nextId + 1
          /\ lastCutTime' = now
          /\ wb' = Put([wb EXCEPT ![headBlock] = Flush(@)], nextId, NewWalBlock)
          /\ UNCHANGED failures
       \/ /\ CanFail
          /\ failures' = failures + 1
          /\ wb' = [wb EXCEPT ![headBlock] = Flush(@)]
          /\ UNCHANGED <<headBlock, nextId, lastCutTime>>
    /\ pc' = AfterCutBlocks(c)
    /\ lastReq' = NoReq
    /\ UNCHANGED <<given, filtered>>
    /\ UNCHANGED <<now, disk, pushLimit, failLimit, phase, closed, liveTracesMtx, blocksMtx, liveTraces, tracesToCut,
                   completeBlocks, metricTotalTraces, metricDroppedTraces, pushes, lost, lateIds, removed>>

\* ------------------------------------------------- the 10-second loops
\* completeBlock, deleteOldBlocks and recordBlockBytes take the block lock
\* when their loop's ticker fires
TaskLock(t) ==
    /\ t \in Tasks \ {"flush"}
    /\ pc[t] = "idle"
    /\ blocksMtx = "none"
    /\ blocksMtx' = t
    /\ pc' = [pc EXCEPT ![t] = "locked"]
    /\ lastReq' = NoReq
    /\ UNCHANGED <<given, filtered>>
    /\ UNCHANGED <<now, disk, pushLimit, failLimit, phase, closed, liveTracesMtx, liveTraces, tracesToCut,
                   wb, headBlock, walBlocks, completeBlocks, lastCutTime, nextId,
                   metricTotalTraces, metricDroppedTraces, pushes, failures,
                   lost, cutRecs, lateIds, removed>>

\* the task returns to its select with the block lock released
TaskReturn(t) ==
    /\ blocksMtx' = "none"
    /\ pc' = [pc EXCEPT ![t] = "idle"]

\* completeBlock with an empty write-ahead set (line 242)
CompleteNone ==
    /\ pc["complete"] = "locked"
    /\ walBlocks = {}
    /\ TaskReturn("complete")
    /\ lastReq' = NoReq
    /\ UNCHANGED <<given, filtered>>
    /\ UNCHANGED <<now, disk, pushLimit, failLimit, phase, closed, liveTracesMtx, liveTraces, tracesToCut,
                   wb, headBlock, walBlocks, completeBlocks, lastCutTime, nextId,
                   metricTotalTraces, metricDroppedTraces, pushes, failures,
                   lost, cutRecs, lateIds, removed>>

\* completeBlock, lines 214-228: Iterator, CreateBlock or OpenBlock fails
CompleteFail ==
    /\ pc["complete"] = "locked"
    /\ walBlocks # {}
    /\ CanFail
    /\ failures' = failures + 1
    /\ TaskReturn("complete")
    /\ lastReq' = NoReq
    /\ UNCHANGED <<given, filtered>>
    /\ UNCHANGED <<now, disk, pushLimit, failLimit, phase, closed, liveTracesMtx, liveTraces, tracesToCut,
                   wb, headBlock, walBlocks, completeBlocks, lastCutTime, nextId,
                   metricTotalTraces, metricDroppedTraces, pushes,
                   lost, cutRecs, lateIds, removed>>

\* a completeBlock that compacts every write-ahead block it finds
CompactedAll(wal, id) == {}

\* the write-ahead set once completeBlock has compacted block id (line 236)
Compacted(wal, id) == wal \ {id}

\* completeBlock, lines 212-239: the first block the map iteration gives is
\* compacted, registered as a complete block, cleared and removed; Clear
\* can fail after the registration
CompleteBlock(id) ==
    /\ pc["complete"] = "locked"
    /\ id \in walBlocks
    /\ completeBlocks' = Put(completeBlocks, id, CreateBlock(wb[id]))
    /\ \/ /\ walBlocks' = Compacted(walBlocks, id)
          /\ wb' = Referenced(Clear(wb, {id}), headBlock, Compacted(walBlocks, id))
          /\ removed' = removed \cup (walBlocks \ Compacted(walBlocks, id))
          /\ UNCHANGED failures
       \/ /\ CanFail
          /\ failures' = failures + 1
          /\ UNCHANGED <<wb, walBlocks, removed>>
    /\ TaskReturn("complete")
    /\ lastReq' = NoReq
    /\ UNCHANGED <<given, filtered>>
    /\ UNCHANGED <<now, disk, pushLimit, failLimit, phase, closed, liveTracesMtx, liveTraces, tracesToCut,
                   headBlock, lastCutTime, nextId, metricTotalTraces,
                   metricDroppedTraces, pushes, lost, cutRecs, lateIds>>

\* deleteOldBlocks, line 249 and the tests of lines 252 and 262
OldWal(t) == {i \in walBlocks : IsOld(wb[i].EndTime, t)}
OldComplete(t) == {i \in DOMAIN completeBlocks : IsOld(completeBlocks[i].EndTime, t)}

\* deleteOldBlocks with the write-ahead blocks of dw and the complete blocks
\* of dc cleared and removed
DeleteEffect(dw, dc) ==
    /\ walBlocks' = walBlocks \ dw
    /\ wb' = Referenced(Clear(wb, dw), headBlock, walBlocks \ dw)
    /\ completeBlocks' = Without(completeBlocks, dc)
    /\ removed' = removed \cup dw \cup dc

\* deleteOldBlocks, every Clear and ClearBlock succeeding
DeleteOldBlocks ==
    /\ pc["delete"] = "locked"
    /\ DeleteEffect(OldWal(now), OldComplete(now))
    /\ TaskReturn("delete")
    /\ lastReq' = NoReq
    /\ UNCHANGED <<given, filtered>>
    /\ UNCHANGED <<now, disk, pushLimit, failLimit, phase, closed, liveTracesMtx, liveTraces, tracesToCut,
                   headBlock, lastCutTime, nextId, metricTotalTraces,
                   metricDroppedTraces, pushes, failures, lost, cutRecs, lateIds>>

\* deleteOldBlocks, lines 253-256: Clear of write-ahead block f fails after
\* the old blocks of done were removed; the call returns at once
DeleteWalFail(f, done) ==
    /\ pc["delete"] = "locked"
    /\ f \in OldWal(now)
    /\ done \subseteq OldWal(now) \ {f}
    /\ CanFail
    /\ failures' = failures + 1
    /\ DeleteEffect(done, {})
    /\ TaskReturn("delete")
    /\ lastReq' = NoReq
    /\ UNCHANGED <<given, filtered>>
    /\ UNCHANGED <<now, disk, pushLimit, failLimit, phase, closed, liveTracesMtx, liveTraces, tracesToCut,
                   headBlock, lastCutTime, nextId, metricTotalTraces,
                   metricDroppedTraces, pushes, lost, cutRecs, lateIds>>

\* deleteOldBlocks, lines 263-266: ClearBlock of complete block f fails
\* after every old write-ahead block and the complete blocks of done were
\* removed
DeleteCompleteFail(f, done) ==
    /\ pc["delete"] = "locked"
    /\ f \in OldComplete(now)
    /\ done \subseteq OldComplete(now) \ {f}
    /\ CanFail
    /\ failures' = failures + 1
    /\ DeleteEffect(OldWal(now), done)
    /\ TaskReturn("delete")
    /\ lastReq' = NoReq
    /\ UNCHANGED <<given, filtered>>
    /\ UNCHANGED <<now, disk, pushLimit, failLimit, phase, closed, liveTracesMtx, liveTraces, tracesToCut,
                   headBlock, lastCutTime, nextId, metricTotalTraces,
                   metricDroppedTraces, pushes, lost, cutRecs, lateIds>>

\* recordBlockBytes: sums the sizes under the block lock and sets a gauge;
\* it changes nothing of the processor
RecordBlockBytes ==
    /\ pc["metric"] = "locked"
    /\ TaskReturn("metric")
    /\ lastReq' = NoReq
    /\ UNCHANGED <<given, filtered>>
    /\ UNCHANGED <<now, disk, pushLimit, failLimit, phase, closed, liveTracesMtx, liveTraces, tracesToCut,
                   wb, headBlock, walBlocks, completeBlocks, lastCutTime, nextId,
                   metricTotalTraces, metricDroppedTraces, pushes, failures,
                   lost, cutRecs, lateIds, removed>>

\* a loop takes the closeCh case of its select and returns (wg.Done)
TaskExit(t) ==
    /\ t \in Tasks
    /\ pc[t] = "idle"
    /\ closed
    /\ pc' = [pc EXCEPT ![t] = "exited"]
    /\ lastReq' = NoReq
    /\ UNCHANGED <<given, filtered>>
    /\ UNCHANGED <<now, disk, pushLimit, failLimit, phase, closed, liveTracesMtx, blocksMtx, liveTraces,
                   tracesToCut, wb, headBlock, walBlocks, completeBlocks, lastCutTime,
                   nextId, metricTotalTraces, metricDroppedTraces, pushes,
                   failures, lost, cutRecs, lateIds, removed>>

\* ------------------------------------------------------------- Shutdown
\* Shutdown, line 102: close(p.closeCh)
ShutdownCall ==
    /\ phase = "running"
    /\ pc["shutdown"] = "none"
    /\ closed' = TRUE
    /\ pc' = [pc EXCEPT !["shutdown"] = "wait"]
    /\ lastReq' = NoReq
    /\ UNCHANGED <<given, filtered>>
    /\ UNCHANGED <<now, disk, pushLimit, failLimit, phase, liveTracesMtx, blocksMtx, liveTraces,
                   tracesToCut, wb, headBlock, walBlocks, completeBlocks, lastCutTime,
                   nextId, metricTotalTraces, metricDroppedTraces, pushes,
                   failures, lost, cutRecs, lateIds, removed>>

\* a Shutdown that starts its final cuts without waiting for the loops
ShutdownNoWait ==
    /\ pc["shutdown"] = "wait"
    /\ pc' = [pc EXCEPT !["shutdown"] = "cutIdle"]
    /\ lastReq' = NoReq
    /\ UNCHANGED <<given, filtered>>
    /\ UNCHANGED <<now, disk, pushLimit, failLimit, phase, closed, liveTracesMtx, blocksMtx, liveTraces,
                   tracesToCut, wb, headBlock, walBlocks, completeBlocks, lastCutTime,
                   nextId, metricTotalTraces, metricDroppedTraces, pushes,
                   failures, lost, cutRecs, lateIds, removed>>

\* Shutdown, line 103: p.wg.Wait() returns when the four loops have exited
ShutdownWait ==
    /\ pc["shutdown"] = "wait"
    /\ \A t \in Tasks : pc[t] = "exited"
    /\ pc' = [pc EXCEPT !["shutdown"] = "cutIdle"]
    /\ lastReq' = NoReq
    /\ UNCHANGED <<given, filtered>>
    /\ UNCHANGED <<now, disk, pushLimit, failLimit, phase, closed, liveTracesMtx, blocksMtx, liveTraces,
                   tracesToCut, wb, headBlock, walBlocks, completeBlocks, lastCutTime,
                   nextId, metricTotalTraces, metricDroppedTraces, pushes,
                   failures, lost, cutRecs, lateIds, removed>>

\* ------------------------------------------------------------------ Next
Next ==
    \/ New
    \/ Tick
    \/ \E req \in Requests : PushSpans(req)
    \/ \E c \in Cutters : CutIdleTraces(c)
    \/ \E c \in Cutters : EncodeFail(c)
    \/ \E c \in Cutters : WriteResetFail(c)
    \/ \E c \in Cutters : WriteHeadBlock(c)
    \/ \E c \in Cutters : FlushHead(c)
    \/ \E c \in Cutters : CutBlocksNoop(c)
    \/ \E c \in Cutters : CutBlocksFlushFail(c)
    \/ \E c \in Cutters : CutBlocks(c)
    \/ \E t \in Tasks : TaskLock(t)
    \/ CompleteNone
    \/ CompleteFail
    \/ \E id \in walBlocks : CompleteBlock(id)
    \/ DeleteOldBlocks
    \/ \E f \in walBlocks : \E done \in SUBSET walBlocks : DeleteWalFail(f, done)
    \/ \E f \in DOMAIN completeBlocks : \E done \in SUBSET DOMAIN completeBlocks :
          DeleteCompleteFail(f, done)
    \/ RecordBlockBytes
    \/ \E t \in Tasks : TaskExit(t)
    \/ ShutdownCall
    \/ ShutdownWait

Spec == Init /\ [][Next]_vars

\* the buffer and the flush loop: PushSpans calls, and the flush loop's ticker
\* alone firing, no storage call failing
NextBuffer ==
    \/ New
    \/ Tick
    \/ \E req \in Requests : PushSpans(req)
    \/ CutIdleTraces("flush")
    \/ WriteHeadBlock("flush")
    \/ FlushHead("flush")
    \/ CutBlocksNoop("flush")
    \/ CutBlocks("flush")

SpecBuffer == InitBuffer /\ [][NextBuffer]_vars

\* the loops running for ever, Shutdown never called: a first start, and a
\* restart that finds two write-ahead segments
LoopDisks ==
    {NoDisk,
     [fail |-> "none", segs |-> [i \in DiskIds |-> Tenant],
      tenants |-> {}, listed |-> [i \in DiskIds |-> "unlisted"]]}

InitLoops == InitOn(LoopDisks, MaxPushes, MaxFailures)

\* a completeBlock call, whatever it finds
CompleteCall ==
    \/ CompleteNone
    \/ CompleteFail
    \/ \E id \in walBlocks : CompleteBlock(id)

\* a deleteOldBlocks call, whatever it finds
DeleteCall ==
    \/ DeleteOldBlocks
    \/ \E f \in walBlocks : \E done \in SUBSET walBlocks : DeleteWalFail(f, done)
    \/ \E f \in DOMAIN completeBlocks : \E done \in SUBSET DOMAIN completeBlocks :
          DeleteCompleteFail(f, done)

NextLoops ==
    \/ New
    \/ Tick
    \/ \E req \in Requests : PushSpans(req)
    \/ CutIdleTraces("flush")
    \/ EncodeFail("flush")
    \/ WriteResetFail("flush")
    \/ WriteHeadBlock("flush")
    \/ FlushHead("flush")
    \/ CutBlocksNoop("flush")
    \/ CutBlocksFlushFail("flush")
    \/ CutBlocks("flush")
    \/ \E t \in Tasks : TaskLock(t)
    \/ CompleteCall
    \/ DeleteCall
    \/ RecordBlockBytes

\* completeLoop's ticker keeps firing, sync.Mutex hands the block lock to a
\* waiting goroutine (its starvation mode), and a goroutine that holds the
\* lock runs on to its unlock
SpecLoops ==
    /\ InitLoops
    /\ [][NextLoops]_vars
    /\ SF_vars(TaskLock("complete"))
    /\ WF_vars(CompleteCall)
    /\ WF_vars(DeleteCall)
    /\ WF_vars(RecordBlockBytes)

\* the buffer, the flush loop and Shutdown, no storage call failing
NextCut ==
    \/ NextBuffer
    \/ \E t \in Tasks : TaskExit(t)
    \/ ShutdownCall
    \/ ShutdownWait
    \/ CutIdleTraces("shutdown")
    \/ WriteHeadBlock("shutdown")
    \/ FlushHead("shutdown")
    \/ CutBlocksNoop("shutdown")
    \/ CutBlocks("shutdown")

SpecCut == InitCut /\ [][NextCut]_vars

\* the part of cutIdleTraces after CutIdle, for one cut trace: encoding and
\* writeHeadBlock, whatever their outcome
WriteCall(c) ==
    \/ EncodeFail(c)
    \/ WriteResetFail(c)
    \/ WriteHeadBlock(c)

\* a cutBlocks call, whatever it finds
CutBlocksCall(c) ==
    \/ CutBlocksNoop(c)
    \/ CutBlocksFlushFail(c)
    \/ CutBlocks(c)

\* a restart that finds one write-ahead segment of the tenant
LockDisk ==
    [fail |-> "none", segs |-> [i \in DiskIds |-> IF i = 1 THEN Tenant ELSE "none"],
     tenants |-> {}, listed |-> [i \in DiskIds |-> "unlisted"]]

InitLocks == InitOn({LockDisk}, MaxPushes, MaxFailures)

\* the requests of the lock analysis: one trace, or two in one call, so that
\* cutIdleTraces calls writeHeadBlock once or twice under the buffer lock
LockRequests == {<<ServerBatch(1)>>, <<ServerBatch(2), ServerBatch(1)>>}

\* every operation of the processor, PushSpans called with LockRequests
NextLocks ==
    \/ New
    \/ Tick
    \/ \E req \in LockRequests : PushSpans(req)
    \/ \E c \in Cutters : CutIdleTraces(c)
    \/ \E c \in Cutters : EncodeFail(c)
    \/ \E c \in Cutters : WriteResetFail(c)
    \/ \E c \in Cutters : WriteHeadBlock(c)
    \/ \E c \in Cutters : FlushHead(c)
    \/ \E c \in Cutters : CutBlocksNoop(c)
    \/ \E c \in Cutters : CutBlocksFlushFail(c)
    \/ \E c \in Cutters : CutBlocks(c)
    \/ \E t \in Tasks : TaskLock(t)
    \/ CompleteNone
    \/ CompleteFail
    \/ \E id \in walBlocks : CompleteBlock(id)
    \/ DeleteOldBlocks
    \/ \E f \in walBlocks : \E done \in SUBSET walBlocks : DeleteWalFail(f, done)
    \/ \E f \in DOMAIN completeBlocks : \E done \in SUBSET DOMAIN completeBlocks :
          DeleteCompleteFail(f, done)
    \/ RecordBlockBytes
    \/ \E t \in Tasks : TaskExit(t)
    \/ ShutdownCall
    \/ ShutdownWait

\* every operation of the processor, with the scheduling the locks rely on:
\* a goroutine that holds a lock runs on to its unlock, and sync.Mutex hands
\* a lock that keeps being released to the goroutine waiting for it (its
\* starvation mode)
SpecLocks ==
    /\ InitLocks
    /\ [][NextLocks]_vars
    /\ WF_vars(CompleteCall)
    /\ WF_vars(DeleteCall)
    /\ WF_vars(RecordBlockBytes)
    /\ \A c \in Cutters :
          /\ SF_vars(WriteCall(c))
          /\ SF_vars(FlushHead(c))
          /\ SF_vars(CutBlocksCall(c))

\* filterBatch alone, on every batch of FilterInputs
InitFilter == InitWith({NoDisk}, 0, 0, FilterInputs)

\* a call of filterBatch
FilterBatch ==
    /\ filtered = NotFiltered
    /\ given # NilBatch
    /\ filtered' = filterBatch(given)
    /\ UNCHANGED <<now, disk, pushLimit, failLimit, lastReq, phase, pc, closed, liveTracesMtx,
                   blocksMtx, liveTraces, tracesToCut, wb, headBlock, walBlocks,
                   completeBlocks, lastCutTime, nextId, metricTotalTraces,
                   metricDroppedTraces, pushes, failures, lost, cutRecs, lateIds,
                   removed, given>>

NextFilter == FilterBatch
SpecFilter == InitFilter /\ [][NextFilter]_vars

\* recovery alone, from every disk
NextRecovery == New
SpecRecovery == InitRecovery /\ [][NextRecovery]_vars

\* ================================================================ properties
\* a step that is a PushSpans call
PushStep == pushes' = pushes + 1

\* the number of batches of req with identifier id that pass filterBatch
BatchesOf(req, id) ==
    Cardinality({i \in 1..Len(req) : /\ filterBatch(req[i]) # NilBatch
                                     /\ BatchTraceId(filterBatch(req[i])) = id})

\* C1: the live trace buffer never holds more than MaxLiveTraces
\* identifiers; a PushSpans call creates no entry when the buffer is full,
\* every batch for an identifier already in the buffer is added to its entry,
\* and when the identifiers in the buffer and those pushed are together at
\* most MaxLiveTraces the buffer holds exactly them after the call.
C1_LiveTracesBounded ==
    /\ [](LiveLen(liveTraces) <= MaxLiveTraces)
    /\ [][PushStep =>
            LET have == DOMAIN liveTraces
                ids == ReqIds(lastReq')
            IN /\ \A id \in have \cap ids :
                    /\ id \in DOMAIN liveTraces'
                    /\ liveTraces'[id].Batches =
                          liveTraces[id].Batches + BatchesOf(lastReq', id)
               /\ LiveLen(liveTraces) >= MaxLiveTraces => DOMAIN liveTraces' = have
               /\ Cardinality(have \cup ids) <= MaxLiveTraces =>
                     DOMAIN liveTraces' = have \cup ids]_vars

\* C1 witness: a push for a new identifier has just been rejected by a full
\* buffer that earlier pushes filled
C1_Witness ==
    /\ LiveLen(liveTraces) = MaxLiveTraces
    /\ lastReq # NoReq
    /\ ReqIds(lastReq) \ DOMAIN liveTraces # {}
    /\ pushes >= 2

\* the batches of req that the call rejected: they pass filterBatch and their
\* identifier is not in the buffer after the call
RejectedBatches(req, after) ==
    {i \in 1..Len(req) : /\ filterBatch(req[i]) # NilBatch
                         /\ BatchTraceId(filterBatch(req[i])) \notin DOMAIN after}

\* C2 (as amended): every PushSpans call adds to the total-traces counter the
\* number of live traces it created, which is never negative, and adds to the
\* dropped-traces counter one for each batch it rejected, so two for two
\* rejected batches of one identifier.
C2_Counters ==
    [][PushStep =>
         /\ metricTotalTraces' - metricTotalTraces =
               Cardinality(DOMAIN liveTraces' \ DOMAIN liveTraces)
         /\ metricTotalTraces' >= metricTotalTraces
         /\ DOMAIN liveTraces \subseteq DOMAIN liveTraces'
         /\ metricDroppedTraces' - metricDroppedTraces =
               Cardinality(RejectedBatches(lastReq', liveTraces'))]_vars

\* C2 as stated: the dropped-traces counter grows by one for each distinct
\* identifier the call rejected
C2_AsStated ==
    [][PushStep =>
         /\ metricTotalTraces' - metricTotalTraces =
               Cardinality(DOMAIN liveTraces' \ DOMAIN liveTraces)
         /\ metricDroppedTraces' - metricDroppedTraces =
               Cardinality(ReqIds(lastReq') \ DOMAIN liveTraces')]_vars

\* C2 witness: three pushes of one batch each, the first two accepted and the
\* third rejected, with no cut in between: total = 2 and dropped = 1
C2_Witness ==
    /\ pushes = 3
    /\ metricTotalTraces = 2
    /\ metricDroppedTraces = 1
    /\ LiveLen(liveTraces) = MaxLiveTraces
    /\ headBlock = Nil
    /\ Len(lastReq) = 1
    /\ ReqIds(lastReq) \cap DOMAIN liveTraces = {}

\* C3 (as amended): when Shutdown has returned and no storage operation has
\* failed, the four loops have exited, the buffer holds only identifiers
\* pushed after Shutdown's idle cut took the buffer, no cut trace is pending
\* or lost, every live trace ever created is either still one of those late
\* entries or a record of a block that cutBlocks registered in the
\* write-ahead set, every write-ahead block is flushed to its last record,
\* and the head block holds zero bytes.
C3_ShutdownFlushes ==
    (pc["shutdown"] = "returned" /\ failures = 0) =>
        /\ \A t \in Tasks : pc[t] = "exited"
        /\ DOMAIN liveTraces \subseteq lateIds
        /\ tracesToCut = <<>>
        /\ lost = 0
        /\ metricTotalTraces = LiveLen(liveTraces) + cutRecs
        /\ \A b \in walBlocks : wb[b].flushed = Len(wb[b].recs)
        /\ headBlock # Nil => DataLength(wb[headBlock]) = 0

\* C3 as stated: the buffer is empty when Shutdown has returned
C3_AsStated ==
    (pc["shutdown"] = "returned" /\ failures = 0) =>
        /\ \A t \in Tasks : pc[t] = "exited"
        /\ liveTraces = NoTraces
        /\ headBlock # Nil => DataLength(wb[headBlock]) = 0

\* C3 witness: Shutdown has returned, and the trace that was accepted before
\* is a record of a write-ahead block cut since construction, the buffer and
\* the head block being empty
C3_Witness ==
    /\ pc["shutdown"] = "returned"
    /\ failures = 0
    /\ metricTotalTraces = 1
    /\ liveTraces = NoTraces
    /\ \E b \in walBlocks : b >= FirstNewId /\ DataLength(wb[b]) = 1
    /\ headBlock # Nil /\ DataLength(wb[headBlock]) = 0

\* a step that is the flush loop's cutBlocks(false) call
FlushCutStep == pc["flush"] = "cutBlocks" /\ pc'["flush"] = "idle"

\* a step that is a cutBlocks call of either caller
CutStep == \E c \in Cutters : pc[c] = "cutBlocks" /\ pc'[c] # "cutBlocks"

\* the head block has accumulated bytes
HeadHasData == headBlock # Nil /\ DataLength(wb[headBlock]) > 0

\* C4: a cutBlocks(false) call leaves the head block, the blocks' contents,
\* the write-ahead set, the complete set, the cut clock and the identifier
\* allocator unchanged when there is no head block, or the head block holds
\* zero bytes, or both the time since the last cut is below MaxBlockDuration
\* and the head block's bytes are below MaxBlockBytes.
C4_CutBlocksNoop ==
    [][(/\ FlushCutStep
        /\ \/ ~HeadHasData
           \/ /\ now - lastCutTime < MaxBlockDuration
              /\ DataLength(wb[headBlock]) < MaxBlockBytes)
       => UNCHANGED <<headBlock, wb, walBlocks, completeBlocks, lastCutTime, nextId>>]_vars

\* C4 witness: the flush loop is back at its select after cutBlocks(false)
\* found a head block with data below both thresholds
C4_Witness ==
    /\ pc["flush"] = "idle"
    /\ pc["shutdown"] = "none"
    /\ HeadHasData
    /\ headBlock \notin walBlocks
    /\ DataLength(wb[headBlock]) < MaxBlockBytes
    /\ now - lastCutTime < MaxBlockDuration
    /\ liveTracesMtx = "none"
    /\ failures = 0

\* C5: a cutBlocks call on a head block with data whose bytes have reached
\* MaxBlockBytes, or whose age has reached MaxBlockDuration, or that is
\* immediate, and in which no storage operation fails, flushes the head
\* block, adds exactly it to the write-ahead set, and leaves a head block
\* with an identifier no block has had, zero bytes and the cut clock at now.
C5_CutBlocksCuts ==
    [][(/\ CutStep
        /\ failures' = failures
        /\ HeadHasData
        /\ \/ DataLength(wb[headBlock]) >= MaxBlockBytes
           \/ now - lastCutTime >= MaxBlockDuration
           \/ pc["shutdown"] = "cutBlocks")
       => /\ walBlocks' = walBlocks \cup {headBlock}
          /\ wb'[headBlock].recs = wb[headBlock].recs
          /\ wb'[headBlock].flushed = Len(wb[headBlock].recs)
          /\ headBlock' # headBlock
          /\ headBlock' \notin DOMAIN wb \cup walBlocks \cup DOMAIN completeBlocks \cup removed
          /\ headBlock' \in DOMAIN wb'
          /\ DataLength(wb'[headBlock']) = 0
          /\ lastCutTime' = now
          /\ completeBlocks' = completeBlocks]_vars

\* C5 witness: while Shutdown has not been called, a block cut since
\* construction with fewer than MaxBlockBytes bytes is in the write-ahead
\* set, so its age alone made cutBlocks(false) cut it
C5_Witness ==
    /\ pc["shutdown"] = "none"
    /\ failures = 0
    /\ \E b \in walBlocks :
          /\ b >= FirstNewId
          /\ b # headBlock
          /\ DataLength(wb[b]) > 0
          /\ DataLength(wb[b]) < MaxBlockBytes
          /\ wb[b].flushed = Len(wb[b].recs)
    /\ headBlock # Nil /\ DataLength(wb[headBlock]) = 0

\* a step that is a completeBlock call
CompleteStep == pc["complete"] = "locked" /\ pc'["complete"] = "idle"

\* the values the identifier allocator can have
NextIds == FirstNewId..(FirstNewId + MaxNewBlocks)

\* C6: a completeBlock call removes at most one block from the write-ahead
\* set and registers at most one complete block, adds nothing to the
\* write-ahead set, moves exactly one block, with its records, when the set
\* is not empty and nothing fails, and changes neither set when it is empty;
\* and while the loops run, a non-empty write-ahead set becomes empty unless
\* a new block is cut or an operation fails in the meantime.
C6_CompleteOnePerCall ==
    /\ [][CompleteStep =>
            /\ walBlocks' \subseteq walBlocks
            /\ Cardinality(walBlocks \ walBlocks') <= 1
            /\ Cardinality(DOMAIN completeBlocks' \ DOMAIN completeBlocks) <= 1
            /\ DOMAIN completeBlocks \subseteq DOMAIN completeBlocks'
            /\ (walBlocks # {} /\ failures' = failures) =>
                  \E id \in walBlocks :
                      /\ walBlocks' = walBlocks \ {id}
                      /\ DOMAIN completeBlocks' = DOMAIN completeBlocks \cup {id}
                      /\ completeBlocks'[id].recs = wb[id].recs
            /\ walBlocks = {} => UNCHANGED <<walBlocks, completeBlocks>>]_vars
    /\ \A n \in NextIds : \A f \in 0..MaxFailures :
          (phase = "running" /\ walBlocks # {} /\ nextId = n /\ failures = f)
             ~> (walBlocks = {} \/ nextId # n \/ failures # f)

\* C6 witness: of two write-ahead blocks one has been compacted and is a
\* complete block, the other is still in the write-ahead set
C6_Witness ==
    /\ pc["complete"] = "idle"
    /\ failures = 0
    /\ Cardinality(walBlocks) = 1
    /\ Cardinality(DOMAIN completeBlocks) = 1
    /\ walBlocks \cap DOMAIN completeBlocks = {}
    /\ removed = DOMAIN completeBlocks

\* a step that is a deleteOldBlocks call
DeleteStep == pc["delete"] = "locked" /\ pc'["delete"] = "idle"

\* the end time is older than now minus CompleteBlockTimeout
Expired(endTime) == endTime < now - CompleteBlockTimeout

C7_AsStatedHeadApart ==
    [][(DeleteStep /\ headBlock \notin walBlocks) =>
         /\ walBlocks' = {i \in walBlocks : ~Expired(wb[i].EndTime)}
         /\ DOMAIN completeBlocks' =
               {i \in DOMAIN completeBlocks : ~Expired(completeBlocks[i].EndTime)}]_vars

C8_Lifecycle ==
    [][phase = "running" =>
         /\ \A id \in walBlocks' \ walBlocks : CutStep /\ id = headBlock
         /\ \A id \in DOMAIN completeBlocks' \ DOMAIN completeBlocks :
               CompleteStep /\ id \in walBlocks
         /\ (walBlocks' \ walBlocks) \cap removed = {}
         /\ (DOMAIN completeBlocks' \ DOMAIN completeBlocks) \cap removed = {}
         /\ (headBlock' # headBlock /\ headBlock' # Nil) =>
               headBlock' \notin DOMAIN wb \cup walBlocks \cup DOMAIN completeBlocks
                                 \cup removed \cup DiskIds \cup {headBlock}]_vars

\* a step that is New returning, having been given a WAL
NewStep == phase = "new" /\ phase' # "new" /\ disk.fail # "nowal"

\* New returned an error: no processor, no loop started, nothing registered
NewFailed ==
    /\ phase' = "failed"
    /\ \A p \in Procs : pc'[p] = "none"
    /\ walBlocks' = {} /\ completeBlocks' = NoBlocks

\* New returned a processor with its four loops started
NewStarted == phase' = "running" /\ \A t \in Tasks : pc'[t] = "idle"

\* the backend is listed: the rescan and the tenant listing succeed and
\* there is a tenant
BlocksListed(d) == d.fail \notin {"nowal", "rescan", "tenants"} /\ d.tenants # {}

\* the failures the code treats as fatal, when recovery meets them
FatalMet(d) ==
    \/ d.fail \in {"rescan", "tenants"}
    \/ /\ BlocksListed(d)
       /\ \/ d.fail = "blocks"
          \/ \E i \in DiskIds : d.listed[i] \in {"metaErr", "openErr"}

\* a partial block whose deletion fails is listed
ClearFailMet(d) ==
    /\ BlocksListed(d)
    /\ d.fail # "blocks"
    /\ \E i \in DiskIds : d.listed[i] = "absentClearFails"

\* C9 (as amended): New returns an error, no processor and no running loop
\* exactly when the rescan, the tenant listing, the block listing, a
\* metadata read failing for a reason other than absence, or the opening of
\* a block fails; a block whose metadata is absent is never registered and
\* recovery goes on to the blocks after it, whether or not its deletion
\* succeeds.
C9_RecoveryFatal ==
    [][NewStep =>
         /\ FatalMet(disk) => NewFailed
         /\ ~FatalMet(disk) =>
               /\ NewStarted
               /\ BlocksListed(disk) =>
                     DOMAIN completeBlocks' = {i \in DiskIds : disk.listed[i] = "ok"}
         /\ \A i \in DiskIds :
               disk.listed[i] \in {"absent", "absentClearFails"} =>
                  i \notin DOMAIN completeBlocks']_vars

\* C9 as stated: the failing deletion of a partial block is fatal too
C9_AsStated ==
    [][NewStep => ((FatalMet(disk) \/ ClearFailMet(disk)) => NewFailed)]_vars

\* C9 witness: New has started a processor from a backend that listed a
\* block without metadata before a readable one, and registered the second
C9_Witness ==
    /\ phase = "running"
    /\ disk.tenants = {Tenant}
    /\ disk.listed[1] = "absent"
    /\ disk.listed[2] = "ok"
    /\ DOMAIN completeBlocks = {2}
    /\ \A t \in Tasks : pc[t] = "idle"

\* C10: when New returns a processor, the write-ahead set holds exactly the
\* rescanned segments of this tenant; with no backend tenant the listing is
\* skipped, the complete set is empty and New succeeds whatever the listing
\* would have given; otherwise the complete set holds exactly the listed
\* blocks whose metadata could be read.
C10_RecoverySets ==
    [][NewStep =>
         /\ phase' = "running" =>
               /\ walBlocks' = {i \in DiskIds : disk.segs[i] = Tenant}
               /\ \A i \in walBlocks' : i \in DOMAIN wb' /\ wb'[i].flushed = Len(wb'[i].recs)
               /\ disk.tenants # {} =>
                     DOMAIN completeBlocks' = {i \in DiskIds : disk.listed[i] = "ok"}
         /\ (disk.fail \notin {"rescan", "tenants"} /\ disk.tenants = {}) =>
               /\ phase' = "running"
               /\ completeBlocks' = NoBlocks]_vars

\* C10 witness: a processor recovered one segment of its tenant, left the
\* other tenant's segment aside, and registered one listed block
C10_Witness ==
    /\ phase = "running"
    /\ disk.segs[1] = Tenant /\ disk.segs[2] = OtherTenant
    /\ walBlocks = {1}
    /\ disk.tenants = {Tenant}
    /\ disk.listed[1] = "unlisted" /\ disk.listed[2] = "ok"
    /\ DOMAIN completeBlocks = {2}

\* C11: a loop leaves its select for good only when closeCh is closed and it
\* is not inside an operation; a step in which a storage call fails takes
\* the loop that made it back to its select or, from cutIdleTraces, on to
\* cutBlocks, never out of the loop; and the flush loop calls cutBlocks
\* after a cutIdleTraces that failed.
C11_TasksSurviveErrors ==
    [][/\ \A t \in Tasks :
            (pc'[t] = "exited" /\ pc[t] # "exited") => (closed /\ pc[t] = "idle")
       /\ failures' # failures =>
            \A t \in Tasks : pc'[t] # pc[t] => pc'[t] \in {"idle", "cutBlocks"}
       /\ (/\ failures' # failures
           /\ pc["flush"] \in {"write", "flush"}
           /\ pc'["flush"] # pc["flush"]) => pc'["flush"] = "cutBlocks"
       /\ (pc["flush"] = "cutBlocks" /\ pc'["flush"] # "cutBlocks") =>
            pc'["flush"] = "idle"]_vars

\* C11 witness: completeBlock failed at Clear, leaving its block in both
\* sets, and the complete loop has since ticked again and is inside its
\* next completeBlock call, closeCh still open
C11_Witness ==
    /\ failures = 1
    /\ ~closed
    /\ headBlock = Nil
    /\ walBlocks \cap DOMAIN completeBlocks # {}
    /\ pc["complete"] = "locked"

\* a step in which caller c enters cutIdleTraces and cuts the buffer
CutIdleStep(c) ==
    /\ pc[c] = IF c = "flush" THEN "idle" ELSE "cutIdle"
    /\ pc'[c] \in {"write", "cutBlocks"}

\* the entry was last written strictly before now minus TraceIdlePeriod
Idle(tr) == tr.timestamp < now - TraceIdlePeriod

\* the identifiers of the records of a sequence
RecIds(recs) == {recs[i].id : i \in 1..Len(recs)}

\* C12: a non-immediate idle cut removes from the buffer exactly the entries
\* last written strictly before now minus TraceIdlePeriod, hands exactly
\* them on, and leaves every other entry as it was; when no entry is that
\* old the buffer, the head block and the block sets are unchanged; an
\* immediate idle cut removes every entry.
C12_CutIdleFrame ==
    [][/\ CutIdleStep("flush") =>
            /\ DOMAIN liveTraces' = {id \in DOMAIN liveTraces : ~Idle(liveTraces[id])}
            /\ \A id \in DOMAIN liveTraces' : liveTraces'[id] = liveTraces[id]
            /\ RecIds(tracesToCut') = {id \in DOMAIN liveTraces : Idle(liveTraces[id])}
            /\ Len(tracesToCut') = Cardinality(RecIds(tracesToCut'))
            /\ (\A id \in DOMAIN liveTraces : ~Idle(liveTraces[id])) =>
                  UNCHANGED <<liveTraces, tracesToCut, headBlock, wb, walBlocks,
                              completeBlocks, lastCutTime, nextId>>
       /\ CutIdleStep("shutdown") =>
            /\ liveTraces' = NoTraces
            /\ RecIds(tracesToCut') = DOMAIN liveTraces
            /\ Len(tracesToCut') = Cardinality(DOMAIN liveTraces)]_vars

\* C12 witness: the flush loop's idle cut has taken an old entry out of the
\* buffer and left a younger one in it
C12_Witness ==
    /\ pc["flush"] = "write"
    /\ liveTracesMtx = "flush"
    /\ tracesToCut # <<>>
    /\ liveTraces # NoTraces
    /\ \A id \in DOMAIN liveTraces : ~Idle(liveTraces[id])

\* the span is of kind server
IsServer(sp) == sp.Kind = SERVER

\* the scope group has a span of kind server
GroupHasServer(g) == \E j \in 1..Len(g.Spans) : IsServer(g.Spans[j])

\* the scope groups filterBatch is to return for batch b
ServerGroups(b) ==
    LET kept == SelectSeq(b.ScopeSpans, GroupHasServer)
    IN [k \in 1..Len(kept) |->
          [Scope |-> kept[k].Scope, Spans |-> SelectSeq(kept[k].Spans, IsServer)]]

\* C13: a filterBatch call returns nothing exactly when its batch has no
\* span of kind server; otherwise it returns the batch's resource with, in
\* their order, the scope groups that have a server span, each with its
\* scope and, in their order, exactly its server spans; the batch it was
\* given is as before.
C13_FilterBatch ==
    [][filtered' # filtered =>
         /\ given' = given
         /\ filtered' = NilBatch <=>
               ~\E i \in 1..Len(given.ScopeSpans) : GroupHasServer(given.ScopeSpans[i])
         /\ filtered' # NilBatch =>
               /\ filtered'.Resource = given.Resource
               /\ filtered'.ScopeSpans = ServerGroups(given)]_vars

\* C13 witness: of two scope groups the first, without server span, was
\* dropped, and the second was returned with one of its two spans
C13_Witness ==
    /\ filtered \notin {NotFiltered, NilBatch}
    /\ Len(given.ScopeSpans) = 2
    /\ Len(given.ScopeSpans[1].Spans) > 0
    /\ Len(given.ScopeSpans[2].Spans) = 2
    /\ Len(filtered.ScopeSpans) = 1
    /\ filtered.ScopeSpans[1].Scope = given.ScopeSpans[2].Scope
    /\ Len(filtered.ScopeSpans[1].Spans) = 1

\* the positions of Shutdown inside its final idle cut and block cut
FinalSequence == {"cutIdle", "write", "flush", "cutBlocks", "returned"}

\* C14: Shutdown is in or past its final cuts only when the four loops have
\* exited, so no loop starts an operation from then on; its cutBlocks call
\* starts only when its cutIdleTraces call has returned, also when that
\* call failed, and Shutdown returns only from that cutBlocks call; a loop
\* exits only from its select, holding no lock, after closeCh was closed,
\* and closing closeCh moves no loop.
C14_ShutdownOrder ==
    /\ [](pc["shutdown"] \in FinalSequence => \A t \in Tasks : pc[t] = "exited")
    /\ [][/\ (pc'["shutdown"] = "cutIdle" /\ pc["shutdown"] # "cutIdle") =>
               pc["shutdown"] = "wait"
          /\ (pc'["shutdown"] = "cutBlocks" /\ pc["shutdown"] # "cutBlocks") =>
               pc["shutdown"] \in {"cutIdle", "write", "flush"}
          /\ (pc["shutdown"] \in {"write", "flush"} /\ failures' # failures) =>
               pc'["shutdown"] = "cutBlocks"
          /\ (pc'["shutdown"] = "returned" /\ pc["shutdown"] # "returned") =>
               pc["shutdown"] = "cutBlocks"
          /\ \A t \in Tasks :
               (pc'[t] = "exited" /\ pc[t] # "exited") =>
                  /\ closed
                  /\ pc[t] = "idle"
                  /\ blocksMtx # t /\ liveTracesMtx # t
          /\ closed' # closed =>
               \A t \in Tasks : pc'[t] = pc[t]]_vars

\* C14 witness: Shutdown has returned from its cutBlocks call after its
\* idle cut failed: at clock 0 only the immediate cut takes traces, and the
\* ones it took were lost before any head block existed
C14_Witness ==
    /\ pc["shutdown"] = "returned"
    /\ \A t \in Tasks : pc[t] = "exited"
    /\ now = 0
    /\ failures = 1
    /\ lost > 0
    /\ headBlock = Nil

\* the loops whose operation holds the block lock across its storage I/O
Bookkeepers == {"complete", "delete", "metric"}

\* a cutter that holds the buffer lock and needs the block lock for its next
\* step: writeHeadBlock (line 329) or the final Flush (line 323), both
\* inside the deferred unlock of line 276
WaitsForBlocks(c) == liveTracesMtx = c /\ pc[c] \in {"write", "flush"}

\* C15: while completeBlock, deleteOldBlocks or recordBlockBytes holds the
\* block lock, the buffer lock is free or its holder can give it back
\* without the block lock, so that a PushSpans call never waits, directly
\* or through a cutter, for the block lock.
C15_PushNeverWaits ==
    blocksMtx \in Bookkeepers => \A c \in Cutters : ~WaitsForBlocks(c)

\* the records are in non-decreasing identifier order
Sorted(recs) == \A i \in 1..(Len(recs) - 1) : recs[i].id <= recs[i + 1].id

\* C16: the records of the head block, over all the idle cuts that have
\* written into it since it was allocated, are in non-decreasing trace
\* identifier order.
C16_SegmentSorted ==
    headBlock # Nil => Sorted(wb[headBlock].recs)

\* the part of C16 about one call: the traces cut by one cutIdleTraces call
\* are queued for the head block in ascending identifier order
C16_SortedPerCall == Sorted(tracesToCut)

\* C17: the current head block is never a member of the write-ahead set,
\* also after a cutBlocks call that returned an error.
C17_HeadNotWriteAhead ==
    headBlock # Nil => headBlock \notin walBlocks

\* C18: a write-ahead block for which a complete block has been registered
\* is no longer in the write-ahead set, also after a completeBlock call
\* that returned an error.
C18_CompactedOnce ==
    walBlocks \cap DOMAIN completeBlocks = {}

\* C18 in the states where the head block is no member of the write-ahead
\* set
C18_CompactedOnceHeadApart ==
    (headBlock = Nil \/ headBlock \notin walBlocks) =>
        walBlocks \cap DOMAIN completeBlocks = {}

\* a step in which the cutIdleTraces call of c, having cut traces, returns
CutIdleReturns(c) == pc[c] \in {"write", "flush"} /\ pc'[c] = "cutBlocks"

\* C19: when a cutIdleTraces call returns, every trace it cut and has not
\* appended to the head block is in the live trace buffer, and no cut trace
\* was ever dropped unwritten.
C19_NoTraceLost ==
    /\ [](lost = 0)
    /\ [][\A c \in Cutters :
            CutIdleReturns(c) => RecIds(tracesToCut) \subseteq DOMAIN liveTraces']_vars

\* the block data guarded by blocksMtx
blockData == <<headBlock, walBlocks, completeBlocks, wb, lastCutTime>>

\* each lock is free or held by one operation that is inside its critical
\* section: the buffer lock by a cutIdleTraces call between CutIdle and its
\* return, the block lock by a bookkeeping call before its return
LocksReleased ==
    /\ liveTracesMtx \in Cutters \cup {"none"}
    /\ blocksMtx \in Bookkeepers \cup {"none"}
    /\ \A c \in Cutters : liveTracesMtx = c <=> pc[c] \in {"write", "flush"}
    /\ \A t \in Bookkeepers : blocksMtx = t <=> pc[t] = "locked"

\* a lock changes hands only through being free, the buffer lock is taken
\* only by an operation that does not hold the block lock, the buffer is
\* changed only by an operation that found the buffer lock free, and the
\* block data only by the holder of the block lock or, the lock being free,
\* by a cutter that takes and releases it within the step
LockOrder ==
    /\ liveTracesMtx' # liveTracesMtx => liveTracesMtx = "none" \/ liveTracesMtx' = "none"
    /\ blocksMtx' # blocksMtx => blocksMtx = "none" \/ blocksMtx' = "none"
    /\ (liveTracesMtx = "none" /\ liveTracesMtx' # "none") => blocksMtx # liveTracesMtx'
    /\ liveTraces' # liveTraces => liveTracesMtx = "none"
    /\ (phase = "running" /\ blockData' # blockData) =>
          \/ blocksMtx = "none" /\ blocksMtx' = "none"
          \/ blocksMtx \in Bookkeepers /\ pc[blocksMtx] = "locked" /\ blocksMtx' = "none"

\* C20: the locks are taken in one order (buffer lock, then block lock) and
\* never twice by one holder, every return releases what the operation took,
\* and so every holder of the block lock gives it back, every cutter that
\* waits for the block lock with the buffer lock in hand gets it and gives
\* both back, and every cutBlocks call gets the block lock and returns.
C20_NoDeadlock ==
    /\ []LocksReleased
    /\ [][LockOrder]_vars
    /\ \A t \in Bookkeepers : (blocksMtx = t) ~> (blocksMtx = "none")
    /\ \A c \in Cutters :
          /\ (WaitsForBlocks(c) /\ (headBlock # Nil \/ CanAllocate)) ~> (liveTracesMtx = "none")
          /\ (pc[c] = "cutBlocks" /\ CanAllocate) ~> (pc[c] # "cutBlocks")

\* C20 witness: completeBlock holds the block lock while the flush loop
\* holds the buffer lock inside cutIdleTraces, with a cut trace in hand, and
\* waits for the block lock
C20_Witness ==
    /\ blocksMtx = "complete"
    /\ WaitsForBlocks("flush")
    /\ tracesToCut # <<>>
    /\ ~closed

====
